---- MODULE Spec2Model ----
(***************************************************************************)
(* Model of the Sniper Pro bot: BotManager (src/bot_logic.py), the buy     *)
(* collaborator PumpFunSDK (src/pump_sdk.py) and the request routes of     *)
(* src/app.py.                                                             *)
(*                                                                         *)
(* One process life runs from the construction of BotManager to a process  *)
(* crash.  Inside a life there are request threads (Flask serves every     *)
(* request on a thread of its own) and monitoring_loop threads.  The       *)
(* methods of BotManager take no lock, so every read or write of a shared  *)
(* attribute (active, position, monitoring_thread, the position file) is   *)
(* a step of its own, and steps of different threads interleave freely.    *)
(*                                                                         *)
(* Spec follows process lives, requests and monitor threads.  TickSpec     *)
(* follows one price update and one get_status field by field, with the    *)
(* numbers of the update.  DecodeSpec applies get_token_price's scan to    *)
(* account data, FormatSpec applies format_number to amounts.  FairSpec is *)
(* Spec with monitor threads that keep being scheduled; SwitchSpec is Spec *)
(* with start requests for a second mint.                                  *)
(***************************************************************************)
EXTENDS Integers, FiniteSets, Sequences, TLC

\* ------------------------------------------------------------------ bounds
\* Request threads served concurrently.
MaxRequests == 2
\* monitoring_loop threads one process life may hold at a time.
MaxMonitors == 2
\* Buy transactions one process life can send.
MaxBuys == 2
\* Prices get_token_price may decode are 1..MaxPrice.
MaxPrice == 2

\* get_status calls in flight at a time in the second specification.
MaxReaders == 1
\* Price updates the monitor makes in the second specification.
MaxTicks == 2

Requests == 1..MaxRequests
Monitors == 1..MaxMonitors
Prices == 1..MaxPrice
\* Mint addresses a caller may pass: a token's, and BadMint, which is no base58
\* public key.
Mints == {"A"}
OtherMint == "B"
BadMint == "?"

VARIABLES
    phase,              \* "boot": no BotManager yet; "run": constructed
    wallet,             \* self.wallet is set (PRIVATE_KEY configured)
    file,               \* content of POSITION_FILE
    position,           \* self.position
    active,             \* self.active
    monitoring_thread,  \* self.monitoring_thread: 0 is None, else a thread
    mon,                \* the monitoring_loop threads
    req,                \* the request threads
    response,           \* what the last request to return gave its caller
    txs,                \* buy transactions this process has sent to the ledger
    account_data,       \* the bonding-curve account data get_token_price fetched
    decoded,            \* what get_token_price returned for account_data
    market_cap          \* the number get_status hands to format_number, and its text

vars == <<phase, wallet, file, position, active, monitoring_thread, mon, req, response, txs,
          account_data, decoded, market_cap>>

\* ------------------------------------------------------------ the position
\* self.position and the file hold values of one shape; kind tells them apart:
\*   "none"     None / no file
\*   "rec"      a position as start_bot builds it
\*   "junk"     valid JSON that is a non-empty object without 'token_address'
\*   "partial"  (file only) a truncated dump: not valid JSON
NoPos == [kind |-> "none", token_address |-> "", current_price |-> 0,
          position_size |-> 0, manual_sell_detected |-> FALSE]

JunkPos == [NoPos EXCEPT !.kind = "junk"]

PartialFile == [NoPos EXCEPT !.kind = "partial"]

NewPosition(tok, price) ==
    [kind |-> "rec", token_address |-> tok, current_price |-> price,
     position_size |-> 1, manual_sell_detected |-> FALSE]

\* Python's truth value of self.position.
Truthy(p) == p.kind \in {"rec", "junk"}

\* ----------------------------------------------------------------- threads
NoMon == [pc |-> "unborn", detected |-> FALSE, curve |-> ""]

NoReq == [pc |-> "idle", token |-> "", save_failed |-> FALSE]

\* Thread.is_alive()
Alive(t) == mon[t].pc \notin {"unborn", "dead"}

AliveMonitors == {t \in Monitors : Alive(t)}

\* The slot a new Thread object takes: threads are unnamed, so the first slot
\* that holds no live thread.
FreeSlots == {t \in Monitors : ~Alive(t) /\ \A u \in 1..(t-1) : Alive(u)}

\* The thread that serves a new request: requests are served by
\* interchangeable threads, so the first idle one.
Serving(r) == req[r].pc = "idle" /\ \A q \in 1..(r-1) : req[q].pc # "idle"

\* No account data fetched: get_token_price has not been called.  Account data
\* is its whole 8-byte words followed by tail more bytes.
NoData == [words |-> <<>>, tail |-> 0]

\* get_token_price has not returned.
NoResult == [st |-> "none"]

\* A number of dollars below 2^32 is hi millions and lo units (the model's
\* integers stop at 2^31); a text is "$whole.centsSuffix".
Amount(hi, lo) == [hi |-> hi, lo |-> lo]
NoText == [st |-> "none"]
NoMarketCap == [num |-> Amount(0, 0), text |-> NoText]

Init ==
    /\ account_data = NoData
    /\ decoded = NoResult
    /\ market_cap = NoMarketCap
    /\ phase = "boot"
    /\ wallet \in BOOLEAN
    /\ file \in {NoPos, JunkPos, NewPosition("A", 1)}
    /\ position = NoPos
    /\ active = FALSE
    /\ monitoring_thread = 0
    /\ mon = [t \in Monitors |-> NoMon]
    /\ req = [r \in Requests |-> NoReq]
    /\ response = "none"
    /\ txs = 0


\* ------------------------------------------------------------- persistence
\* load_position: what self.position is when load_position returns.  The value
\* json.load returns is assigned before the log line reads 'token_address', so
\* an object without that key stays assigned when the KeyError is caught; a
\* missing file or a truncated one leaves self.position None.
\* A load_position that reads the file and keeps nothing of it.
LoadedPosition_Dropped(f) == NoPos

LoadedPosition(f) == IF f.kind \in {"rec", "junk"} THEN f ELSE NoPos

\* A load_position that never resumes monitoring.
LoadResumes_Never(f) == FALSE

\* load_position: whether it reaches `self.active = True; start_monitoring()`.
LoadResumes(f) == f.kind = "rec"

\* save_position: the file after the call.  Nothing is written when
\* self.position is falsy; an I/O error (ok = FALSE: open() raises) is caught
\* and logged inside save_position and leaves the file as it was.
SavedFile(p, f, ok) == IF Truthy(p) /\ ok THEN p ELSE f

\* threading.Thread(target=self.monitoring_loop).start(), bound to
\* self.monitoring_thread.
Spawned(t) == [mon EXCEPT ![t] = [NoMon EXCEPT !.pc = "while"]]

\* BotManager.__init__ (called once, at import of app.py).
Construct ==
    /\ phase = "boot"
    /\ phase' = "run"
    /\ position' = LoadedPosition(file)
    /\ IF LoadResumes(file)
       THEN /\ active' = TRUE
            /\ mon' = Spawned(1)
            /\ monitoring_thread' = 1
       ELSE UNCHANGED <<active, mon, monitoring_thread>>
    /\ UNCHANGED <<wallet, file, req, response, txs, account_data, decoded, market_cap>>

\* --------------------------------------------------------------- start_bot
Return(r) == [req EXCEPT ![r] = NoReq]

\* The checks of start_bot without the test of self.active.
StartRejection_NoActiveTest(tok) ==
    IF ~wallet THEN "no_wallet"
    ELSE IF tok = BadMint THEN "derive_failed"
    ELSE "none"

\* The checks of start_bot without the test of the derived bonding curve.
StartRejection_NoDeriveTest(tok) ==
    IF ~wallet THEN "no_wallet"
    ELSE IF active THEN "already_running"
    ELSE "none"

\* start_bot, the checks before any I/O: the reason it returns at once, or
\* "none" when it goes on.  derive_bonding_curve returns None for a string
\* that is no public key.
StartRejection(tok) ==
    IF ~wallet THEN "no_wallet"
    ELSE IF active THEN "already_running"
    ELSE IF tok = BadMint THEN "derive_failed"
    ELSE "none"

\* pump_sdk.buy_token: "confirmed" (sent, confirmed without error), "failed"
\* (sent; status.err or no confirmation in 30 polls), "unsent" (an exception
\* before send_transaction, or a wallet that cannot pay).  "raised": the buy
\* is not reached, because `price_sol * sol_price_usd` (line 361) raises
\* TypeError on a rate that is no number; start_bot's except clause returns.
BuyOutcomes == {"confirmed", "failed", "unsent", "raised"}

\* buy_token got as far as send_transaction.
Sent(outcome) == outcome \in {"confirmed", "failed"}

\* `if not buy_result.get('success')` (line 371): buy_token reports success
\* only from its confirmation loop, for a status that has a
\* confirmation_status and no err.
BuySucceeded_IfSent(outcome) == Sent(outcome)
BuySucceeded(outcome) == outcome = "confirmed"

\* start_bot up to the result of the buy: the checks, get_token_price, and
\* pump_sdk.buy_token.  After the test of self.active these read and write
\* nothing of BotManager, so they are one step with it.  priced = FALSE is a
\* price of 0: every failure of the fetch or scan.  The price itself is not
\* used before the position is built, and is drawn there.
StartBot_Check(r, tok, priced, outcome) ==
    /\ phase = "run"
    /\ Serving(r)
    /\ Sent(outcome) => txs < MaxBuys
    /\ IF StartRejection(tok) # "none"
       THEN /\ response' = StartRejection(tok)
            /\ UNCHANGED <<req, txs>>
       ELSE IF ~priced
       THEN /\ response' = "price_unavailable"
            /\ UNCHANGED <<req, txs>>
       ELSE /\ txs' = IF Sent(outcome) THEN txs + 1 ELSE txs
            /\ IF BuySucceeded(outcome)
               THEN /\ req' = [req EXCEPT ![r] = [NoReq EXCEPT !.pc = "install", !.token = tok]]
                    /\ UNCHANGED response
               ELSE /\ response' = IF outcome = "raised" THEN "start_exception" ELSE "buy_failed"
                    /\ UNCHANGED req
    /\ UNCHANGED <<phase, wallet, file, position, active, monitoring_thread, mon, account_data, decoded, market_cap>>

\* start_monitoring, its test: whether a thread has to be created.
NeedsThread == monitoring_thread = 0 \/ ~Alive(monitoring_thread)

\* start_bot after a confirmed buy, to the test of start_monitoring:
\*   self.position = {...}; self.save_position(); self.active = True;
\*   self.start_monitoring()
\* These run back to back with no I/O but the file write, and are one step.
\* p is the price get_token_price returned before the buy.
StartBot_Install(r, p, ok) ==
    /\ phase = "run"
    /\ req[r].pc = "install"
    /\ position' = NewPosition(req[r].token, p)
    /\ file' = SavedFile(position', file, ok)
    /\ active' = TRUE
    /\ IF NeedsThread
       THEN /\ req' = [req EXCEPT ![r].pc = "sm_spawn", ![r].save_failed = ~ok]
            /\ UNCHANGED response
       ELSE /\ req' = Return(r)
            /\ response' = "success"
    /\ UNCHANGED <<phase, wallet, monitoring_thread, mon, txs, account_data, decoded, market_cap>>

\* start_monitoring, its body, then start_bot's return of success.
StartBot_Spawn(r, t) ==
    /\ phase = "run"
    /\ req[r].pc = "sm_spawn"
    /\ t \in FreeSlots
    /\ mon' = Spawned(t)
    /\ monitoring_thread' = t
    /\ req' = Return(r)
    /\ response' = "success"
    /\ UNCHANGED <<phase, wallet, file, position, active, txs, account_data, decoded, market_cap>>

\* start_monitoring when Thread.start() raises RuntimeError ("can't start new
\* thread": the process is at its thread limit).  Line 322 has bound the new,
\* never started Thread to self.monitoring_thread; start_bot's except clause
\* (lines 422-426) returns the failure.
StartBot_SpawnFails(r, t) ==
    /\ phase = "run"
    /\ req[r].pc = "sm_spawn"
    /\ t \in FreeSlots
    /\ mon' = [mon EXCEPT ![t] = NoMon]
    /\ monitoring_thread' = t
    /\ req' = Return(r)
    /\ response' = "start_exception"
    /\ UNCHANGED <<phase, wallet, file, position, active, txs, account_data, decoded, market_cap>>

\* ------------------------------------------------------ stop_bot, get_status
\* stop_bot's `self.monitoring_thread.join(timeout=2)` raises RuntimeError when
\* the thread is the caller (0: a request thread) or was never started.
JoinRaises(caller) ==
    /\ monitoring_thread # 0
    /\ monitoring_thread = caller \/ mon[monitoring_thread].pc = "unborn"

\* A stop_bot that also calls delete_position.
StopBot_Deletes(r) ==
    /\ phase = "run"
    /\ Serving(r)
    /\ active' = FALSE
    /\ position' = NoPos
    /\ file' = NoPos
    /\ response' = "stop_ok"
    /\ UNCHANGED <<phase, wallet, monitoring_thread, mon, req, txs, account_data, decoded, market_cap>>

\* stop_bot from a request: the join waits at most 2 s and its outcome is not
\* looked at; when it raises, the route answers 500 (app.py, lines 112-113).
StopBot(r) ==
    /\ phase = "run"
    /\ Serving(r)
    /\ active' = FALSE
    /\ response' = IF JoinRaises(0) THEN "stop_error" ELSE "stop_ok"
    /\ UNCHANGED <<phase, wallet, file, position, monitoring_thread, mon, req, txs, account_data, decoded, market_cap>>

\* A get_status that reports every position as active.
StatusOf_IgnoresActive(p, a) == IF ~Truthy(p) THEN "ready" ELSE "active sniping"

\* get_status: the "active" field of the view it returns.
ActiveField(p, a) == IF ~Truthy(p) THEN FALSE ELSE a

\* get_status: the "status" field of the view it returns.
StatusOf(p, a) ==
    IF ~Truthy(p) THEN "ready" ELSE IF a THEN "active sniping" ELSE "stopped"

GetStatus(r) ==
    /\ phase = "run"
    /\ Serving(r)
    /\ response' = StatusOf(position, active)
    /\ UNCHANGED <<phase, wallet, file, position, active, monitoring_thread, mon, req, txs, account_data, decoded, market_cap>>

\* The methods class BotManager defines.
BotManagerMethods ==
    {"__init__", "load_position", "save_position", "delete_position", "get_sol_price",
     "check_wallet_balance", "get_token_price", "format_number", "monitoring_loop",
     "start_monitoring", "start_bot", "stop_bot", "get_status"}

\* health_check of app.py: it calls bot_manager.is_active() outside any try, so
\* an AttributeError leaves the route and the framework answers 500.
Health(r) ==
    /\ phase = "run"
    /\ Serving(r)
    /\ response' = IF "is_active" \notin BotManagerMethods THEN "error_500"
                   ELSE IF active THEN "healthy_active" ELSE "healthy_inactive"
    /\ UNCHANGED <<phase, wallet, file, position, active, monitoring_thread, mon, req, txs, account_data, decoded, market_cap>>

\* --------------------------------------------------------- monitoring_loop
\* A loop whose except clause is missing: the exception ends the thread.
AfterException_Dies == "exiting"

\* The except clause of the loop: log, sleep, and back to the loop's test.
AfterException == "while"

\* check_wallet_balance(token_mint): the amount it returns, holding being what
\* the wallet holds of the mint on the ledger.  It returns 0 also when the query
\* raises inside it (no wallet configured, or the RPC fails: rpc_ok = FALSE).
WalletBalance(holding, rpc_ok) == IF wallet /\ rpc_ok THEN holding ELSE 0

\* `while self.active:` (line 272): into the body, or past the loop.
AfterWhile_Always == "tick"
AfterWhile == IF active THEN "tick" ELSE "exiting"

Mon_While(t) ==
    /\ phase = "run"
    /\ mon[t].pc = "while"
    /\ mon' = [mon EXCEPT ![t].pc = AfterWhile, ![t].curve = ""]
    /\ UNCHANGED <<phase, wallet, file, position, active, monitoring_thread, req, response, txs, account_data, decoded, market_cap>>

\* The loop is left: the last log line is written and the thread ends.  Until
\* then is_alive() is still true.
Mon_Exit(t) ==
    /\ phase = "run"
    /\ mon[t].pc = "exiting"
    /\ mon' = [mon EXCEPT ![t].pc = "dead"]
    /\ UNCHANGED <<phase, wallet, file, position, active, monitoring_thread, req, response, txs, account_data, decoded, market_cap>>

\* `if price_sol > 0:` is false (lines 287, 311): sleep, then the loop's test.
AfterNoPrice_Stops == "exiting"
AfterNoPrice == "while"

\* A tick up to the price: the position test, the balance query, the
\* manual-sell test and get_token_price(self.position['bonding_curve']).
\* Reading 'token_address' of an object without it raises KeyError; a price of
\* 0 (priced = FALSE) skips the update.  curve is the mint whose bonding curve
\* the thread's local price_sol was fetched for in this pass of the loop, until
\* the price is used.
Mon_Tick(t, holding, rpc_ok, priced) ==
    /\ phase = "run"
    /\ mon[t].pc = "tick"
    /\ LET pc == IF ~Truthy(position) THEN "while"
                 ELSE IF position.kind = "junk" THEN AfterException
                 ELSE IF WalletBalance(holding, rpc_ok) = 0
                         /\ position.position_size > 0
                      THEN "manual_sell"
                 ELSE IF priced THEN "update"
                 ELSE AfterNoPrice
           fetched == position.kind = "rec" /\ pc # "manual_sell"
       IN  mon' = [mon EXCEPT ![t].pc = pc,
                              ![t].curve = IF fetched THEN position.token_address ELSE ""]
    /\ UNCHANGED <<phase, wallet, file, position, active, monitoring_thread, req, response, txs, account_data, decoded, market_cap>>

\* The manual-sell branch:
\*   self.position['manual_sell_detected'] = True; self.save_position();
\*   self.stop_bot(); break
\* stop_bot clears active and then joins self.monitoring_thread: Thread.join
\* raises RuntimeError ("cannot join current thread") when that is the calling
\* thread, so the break is reached only when self.monitoring_thread is another,
\* started thread; otherwise the loop's except clause runs.
MarkedSold_Repriced(pos) == [pos EXCEPT !.manual_sell_detected = TRUE, !.current_price = MaxPrice]
MarkedSold(pos) == [pos EXCEPT !.manual_sell_detected = TRUE]

Mon_ManualSell(t, ok) ==
    /\ phase = "run"
    /\ mon[t].pc = "manual_sell"
    /\ position' = MarkedSold(position)
    /\ file' = SavedFile(position', file, ok)
    /\ active' = FALSE
    /\ mon' = [mon EXCEPT ![t].detected = TRUE,
                          ![t].pc = IF JoinRaises(t) THEN AfterException ELSE "exiting"]
    /\ UNCHANGED <<phase, wallet, monitoring_thread, req, response, txs, account_data, decoded, market_cap>>

\* The price update of a tick and its save_position().  raises: an exception of
\* the arithmetic (the oracle's JSON holds no number, entry_price_usd is 0),
\* raised before any field is written.  p is the price Mon_Tick fetched.
Mon_Update(t, p, raises, ok) ==
    /\ phase = "run"
    /\ mon[t].pc = "update"
    /\ IF raises \/ position.kind # "rec"
       THEN /\ mon' = [mon EXCEPT ![t].pc = AfterException, ![t].curve = ""]
            /\ UNCHANGED <<position, file>>
       ELSE /\ mon' = [mon EXCEPT ![t].pc = "while", ![t].curve = ""]
            /\ position' = [position EXCEPT !.current_price = p]
            /\ file' = SavedFile(position', file, ok)
    /\ UNCHANGED <<phase, wallet, active, monitoring_thread, req, response, txs, account_data, decoded, market_cap>>

\* ------------------------------------------------------------------- crash
\* A thread is at a step that calls save_position.
InSave ==
    \/ \E r \in Requests : req[r].pc = "install"
    \/ \E t \in Monitors : mon[t].pc \in {"manual_sell", "update"} /\ Truthy(position)

\* The process dies.  open(POSITION_FILE, 'w') truncates the file and json.dump
\* writes it piece by piece: a crash of a thread inside save_position (torn)
\* leaves a truncated file.  Memory and threads are gone; the file and the ledger stay.
Crash(torn) ==
    /\ phase = "run"
    /\ torn => InSave
    /\ phase' = "boot"
    /\ file' = IF torn THEN PartialFile ELSE file
    /\ position' = NoPos
    /\ active' = FALSE
    /\ monitoring_thread' = 0
    /\ mon' = [t \in Monitors |-> NoMon]
    /\ req' = [r \in Requests |-> NoReq]
    /\ response' = "none"
    /\ txs' = 0
    /\ UNCHANGED <<wallet, account_data, decoded, market_cap>>

Next ==
    \/ Construct
    \/ \E r \in Requests, tok \in Mints \cup {BadMint}, priced \in BOOLEAN, o \in BuyOutcomes :
         StartBot_Check(r, tok, priced, o)
    \/ \E r \in Requests, p \in Prices, ok \in BOOLEAN : StartBot_Install(r, p, ok)
    \/ \E r \in Requests, t \in Monitors : StartBot_Spawn(r, t)
    \/ \E r \in Requests, t \in Monitors : StartBot_SpawnFails(r, t)
    \/ \E r \in Requests : StopBot(r)
    \/ \E r \in Requests : GetStatus(r)
    \/ \E r \in Requests : Health(r)
    \/ \E t \in Monitors : Mon_While(t)
    \/ \E t \in Monitors : Mon_Exit(t)
    \/ \E t \in Monitors, holding \in 0..1, rpc_ok \in BOOLEAN, priced \in BOOLEAN :
         Mon_Tick(t, holding, rpc_ok, priced)
    \/ \E t \in Monitors, ok \in BOOLEAN : Mon_ManualSell(t, ok)
    \/ \E t \in Monitors, p \in Prices, raises \in BOOLEAN, ok \in BOOLEAN : Mon_Update(t, p, raises, ok)
    \/ \E torn \in BOOLEAN : Crash(torn)

Spec == Init /\ [][Next]_vars

\* The same process when the operator also starts the bot on a second mint.
SwitchNext ==
    \/ Next
    \/ \E r \in Requests, priced \in BOOLEAN, o \in BuyOutcomes : StartBot_Check(r, OtherMint, priced, o)

SwitchSpec == Init /\ [][SwitchNext]_vars

\* The steps of monitor thread t.  A started thread is scheduled again and
\* again until it ends: its sleeps and its RPC calls (bounded by the client's
\* timeout) return.
MonStep(t) ==
    \/ Mon_While(t)
    \/ Mon_Exit(t)
    \/ \E holding \in 0..1, rpc_ok \in BOOLEAN, priced \in BOOLEAN : Mon_Tick(t, holding, rpc_ok, priced)
    \/ \E ok \in BOOLEAN : Mon_ManualSell(t, ok)
    \/ \E p \in Prices, raises \in BOOLEAN, ok \in BOOLEAN : Mon_Update(t, p, raises, ok)

FairSpec == Spec /\ \A t \in Monitors : WF_vars(MonStep(t))

\* =================================================== the tick, field by field
\* The second specification follows one position through the price update of
\* monitoring_loop and through get_status at the grain of the single reads and
\* writes of self.position, with the numbers the code computes.  Prices are
\* whole numbers and position_size counts millions of tokens; a division is
\* the floor of the code's float division.
Min(a, b) == IF a < b THEN a ELSE b

Max(a, b) == IF a > b THEN a ELSE b

\* `return 150  # Fallback`
SOL_PRICE_FALLBACK == 150

STOP_LOSS_PERCENT == -20

\* What the rate request can end in.  usd is the body's ["solana"]["usd"].
FetchFailures == {"transport_error", "timeout", "not_200", "not_json", "no_key", "non_number"}

Rates == {100, SOL_PRICE_FALLBACK}

FetchOutcomes ==
    {[kind |-> k, usd |-> 0] : k \in FetchFailures} \cup {[kind |-> "number", usd |-> u] : u \in Rates}

\* A value of get_sol_price: a number, or (isnum FALSE) the string or null the
\* body held in place of one.
Num(v) == [isnum |-> TRUE, v |-> v]

NonNumber == [isnum |-> FALSE, v |-> 0]

\* get_sol_price.  requests.get raising, response.json() raising and a missing
\* key are caught and fall to the fallback, as does a status other than 200;
\* whatever a 200 body holds under ["solana"]["usd"] is returned as it is.
GetSolPrice(o) ==
    IF o.kind = "number" THEN Num(o.usd)
    ELSE IF o.kind = "non_number" THEN NonNumber
    ELSE Num(SOL_PRICE_FALLBACK)

\* pnl_percent = ((current_price_usd - entry_price) / entry_price) * 100
PnlPercent(cur, entry) == ((cur - entry) * 100) \div entry

\* A tp_progress without the floor at 0.
TpProgress_NoFloor(pnl, tp) == IF tp > 0 THEN Min((pnl * 100) \div tp, 100) ELSE 0

\* progress = min((pnl_percent / tp_target) * 100, 100) if tp_target > 0 else 0
\* self.position['tp_progress'] = max(progress, 0)
TpProgress(pnl, tp) == IF tp > 0 THEN Max(Min((pnl * 100) \div tp, 100), 0) ELSE 0

\* buy_token's tokens_received = amount_sol * 1e6, counted in millions.
TokensReceived(amount_sol) == amount_sol

\* The position start_bot builds, with the fields the tick and get_status use.
OpenPosition(tok, price_sol, rate, amount_sol, tp) ==
    [kind |-> "rec", token_address |-> tok, manual_sell_detected |-> FALSE,
     buy_amount_sol |-> amount_sol,
     entry_price_usd |-> price_sol * rate,
     current_price |-> price_sol,
     current_price_usd |-> price_sol * rate,
     position_size |-> TokensReceived(amount_sol),
     position_value_usd |-> TokensReceived(amount_sol) * (price_sol * rate),
     take_profit_percent |-> tp,
     tp_target_usd |-> (price_sol * rate) + ((price_sol * rate) * tp) \div 100,
     sl_target_usd |-> (price_sol * rate) + ((price_sol * rate) * STOP_LOSS_PERCENT) \div 100,
     pnl_usd |-> 0, pnl_percent |-> 0, tp_progress |-> 0]

\* The price is at or beyond the take-profit target, or at or below the
\* stop-loss target.
Crossing(pos, cur) == cur >= pos.tp_target_usd \/ cur <= pos.sl_target_usd

\* Inputs of the second specification.
EntryPrice == 20
BuyAmount == 1
TickPrices == {18, 25, 60}
TakeProfits == {0, 50}

\* A monitor thread with the locals of its tick;\* ticks counts the price updates it has begun.
TickMon(pc) ==
    [pc |-> pc, detected |-> FALSE, price |-> 0, cur |-> 0, rate |-> 0, pnl |-> 0, value |-> 0,
     ticks |-> 0]

\* Just after a successful start_bot: a position, active, one monitor thread.
TickInit ==
    /\ phase = "run"
    /\ wallet = TRUE
    /\ \E tp \in TakeProfits :
         position = OpenPosition("A", EntryPrice, SOL_PRICE_FALLBACK, BuyAmount, tp)
    /\ file = position
    /\ active = TRUE
    /\ monitoring_thread = 1
    /\ mon = [t \in Monitors |-> IF t = 1 THEN TickMon("while") ELSE TickMon("unborn")]
    /\ req = [r \in Requests |-> NoReq]
    /\ response = "success"
    /\ txs = 1
    /\ account_data = NoData
    /\ decoded = NoResult
    /\ market_cap = NoMarketCap

\* A tick to the end of line 289: the position test, the balance (the tokens
\* are held), get_token_price (p = 0: no price, the update is skipped) and
\* get_sol_price.  price_sol * sol_price_usd raises TypeError when the rate is
\* no number.
Tick_Price(t, p, o) ==
    /\ mon[t].pc = "tick"
    /\ (p # 0 /\ GetSolPrice(o).isnum) => mon[t].ticks < MaxTicks
    /\ mon' = [mon EXCEPT ![t] =
                 IF p = 0 THEN [@ EXCEPT !.pc = "while"]
                 ELSE IF ~GetSolPrice(o).isnum THEN [@ EXCEPT !.pc = AfterException]
                 ELSE [@ EXCEPT !.pc = "w_price", !.price = p, !.cur = p * GetSolPrice(o).v,
                                !.rate = GetSolPrice(o).v, !.ticks = @ + 1]]
    /\ UNCHANGED <<phase, wallet, file, position, active, monitoring_thread, req, response, txs, account_data, decoded, market_cap>>

\* Lines 291-294.
Tick_WritePrice(t) ==
    /\ mon[t].pc = "w_price"
    /\ position' = [position EXCEPT !.current_price = mon[t].price, !.current_price_usd = mon[t].cur]
    /\ mon' = [mon EXCEPT ![t].pc = "w_pnl"]
    /\ UNCHANGED <<phase, wallet, file, active, monitoring_thread, req, response, txs, account_data, decoded, market_cap>>

\* Lines 296-298.
Tick_WritePnl(t) ==
    /\ mon[t].pc = "w_pnl"
    /\ position' = [position EXCEPT !.pnl_percent = PnlPercent(mon[t].cur, position.entry_price_usd)]
    /\ mon' = [mon EXCEPT ![t].pc = "w_value", ![t].pnl = PnlPercent(mon[t].cur, position.entry_price_usd)]
    /\ UNCHANGED <<phase, wallet, file, active, monitoring_thread, req, response, txs, account_data, decoded, market_cap>>

\* Lines 300-301.
Tick_WriteValue(t) ==
    /\ mon[t].pc = "w_value"
    /\ position' = [position EXCEPT !.position_value_usd = position.position_size * mon[t].cur]
    /\ mon' = [mon EXCEPT ![t].pc = "w_pnl_usd", ![t].value = position.position_size * mon[t].cur]
    /\ UNCHANGED <<phase, wallet, file, active, monitoring_thread, req, response, txs, account_data, decoded, market_cap>>

\* Line 302.
Tick_WritePnlUsd(t) ==
    /\ mon[t].pc = "w_pnl_usd"
    /\ position' = [position EXCEPT !.pnl_usd = mon[t].value - position.buy_amount_sol * mon[t].rate]
    /\ mon' = [mon EXCEPT ![t].pc = "w_progress"]
    /\ UNCHANGED <<phase, wallet, file, active, monitoring_thread, req, response, txs, account_data, decoded, market_cap>>

\* Lines 304-306.
Tick_WriteProgress(t) ==
    /\ mon[t].pc = "w_progress"
    /\ position' = [position EXCEPT !.tp_progress = TpProgress(mon[t].pnl, position.take_profit_percent)]
    /\ mon' = [mon EXCEPT ![t].pc = "save"]
    /\ UNCHANGED <<phase, wallet, file, active, monitoring_thread, req, response, txs, account_data, decoded, market_cap>>

\* A tick that sells and stops once a target is crossed.
Tick_Save_SellsAtTarget(t, ok) ==
    /\ mon[t].pc = "save"
    /\ file' = SavedFile(position, file, ok)
    /\ IF Crossing(position, mon[t].cur)
       THEN /\ mon' = [mon EXCEPT ![t].pc = "exiting"]
            /\ active' = FALSE
            /\ txs' = txs + 1
       ELSE /\ mon' = [mon EXCEPT ![t] = [TickMon("while") EXCEPT !.ticks = mon[t].ticks]]
            /\ UNCHANGED <<active, txs>>
    /\ UNCHANGED <<phase, wallet, position, monitoring_thread, req, response, account_data, decoded, market_cap>>

\* Lines 308-311: save_position, the log line and the sleep.
Tick_Save(t, ok) ==
    /\ mon[t].pc = "save"
    /\ file' = SavedFile(position, file, ok)
    /\ mon' = [mon EXCEPT ![t] = [TickMon("while") EXCEPT !.ticks = mon[t].ticks]]
    /\ UNCHANGED <<phase, wallet, position, active, monitoring_thread, req, response, txs, account_data, decoded, market_cap>>

\* The fields of self.position the dict of get_status reads, in its order.
ViewFields == <<"current_price_usd", "pnl_percent", "pnl_usd", "position_value_usd", "tp_progress">>

\* The fields of a position get_status shows.
ViewOf(pos) == [f \in {ViewFields[k] : k \in 1..Len(ViewFields)} |-> pos[f]]

\* The view before any field is read.
EmptyView == [f \in {ViewFields[k] : k \in 1..Len(ViewFields)} |-> 0]

\* get_status, one self.position.get(...) of its dict at a time: the k-th read
\* puts the field's value of that moment into the view.
Status_Read(r) ==
    /\ phase = "run"
    /\ Truthy(position)
    /\ \/ /\ Serving(r)
          /\ Cardinality({q \in Requests : req[q].pc = "reading"}) < MaxReaders
          /\ req' = [req EXCEPT ![r] = [pc |-> "reading", token |-> "", save_failed |-> FALSE, k |-> 1,
                                        view |-> [EmptyView EXCEPT ![ViewFields[1]] = position[ViewFields[1]]]]]
       \/ /\ req[r].pc = "reading"
          /\ req[r].k < Len(ViewFields)
          /\ req' = [req EXCEPT ![r].k = @ + 1,
                                ![r].view[ViewFields[req[r].k + 1]] = position[ViewFields[req[r].k + 1]]]
    /\ UNCHANGED <<phase, wallet, file, position, active, monitoring_thread, mon, response, txs, account_data, decoded, market_cap>>

\* get_status returns the dict it has built.
Status_Return(r) ==
    /\ phase = "run"
    /\ req[r].pc = "reading"
    /\ req[r].k = Len(ViewFields)
    /\ req' = Return(r)
    /\ response' = StatusOf(position, active)
    /\ UNCHANGED <<phase, wallet, file, position, active, monitoring_thread, mon, txs, account_data, decoded, market_cap>>

TickNext ==
    \/ \E t \in Monitors : Mon_While(t)
    \/ \E t \in Monitors : Mon_Exit(t)
    \/ \E t \in Monitors, p \in TickPrices \cup {0}, o \in FetchOutcomes : Tick_Price(t, p, o)
    \/ \E t \in Monitors : Tick_WritePrice(t)
    \/ \E t \in Monitors : Tick_WritePnl(t)
    \/ \E t \in Monitors : Tick_WriteValue(t)
    \/ \E t \in Monitors : Tick_WritePnlUsd(t)
    \/ \E t \in Monitors : Tick_WriteProgress(t)
    \/ \E t \in Monitors, ok \in BOOLEAN : Tick_Save(t, ok)
    \/ \E r \in Requests : Status_Read(r)
    \/ \E r \in Requests : Status_Return(r)
    \/ \E r \in Requests : StopBot(r)

TickSpec == TickInit /\ [][TickNext]_vars

\* ============================================================== the decoder
\* The third specification applies the scan of get_token_price to account
\* data.  A 64-bit word is m * 10^e with a mantissa m below 100 (m = 0: the
\* word 0), so that the reserves of a curve (30 * 10^9 lamports, 10^15 raw
\* tokens) and the ratios of the scan are exact in small integers.
MaxWords == 4

MIN_DATA_LEN == 16

Word(m, e) == [m |-> m, e |-> e]

\* 0; a raw 5; 30 SOL in lamports; 10^15 raw tokens; an account discriminator.
WordValues == {Word(0, 0), Word(5, 0), Word(3, 10), Word(1, 15), Word(69, 17)}

RECURSIVE WordSeqs(_)
WordSeqs(n) ==
    IF n = 0 THEN {<<>>}
    ELSE {Append(ws, w) : ws \in WordSeqs(n - 1), w \in WordValues}

Blobs == {[words |-> ws, tail |-> tl] : ws \in UNION {WordSeqs(n) : n \in 0..MaxWords}, tl \in 0..7}

\* len(data)
ByteLen(b) == 8 * Len(b.words) + b.tail

RECURSIVE Pow10(_)
Pow10(n) == IF n = 0 THEN 1 ELSE 10 * Pow10(n - 1)

\* decimal_candidates: (sol_decimals, token_decimals)
decimal_candidates == <<<<9, 6>>, <<9, 9>>, <<9, 0>>, <<0, 6>>, <<0, 9>>>>

\* range(0, max_index, 8) with max_index = len(data) - 8
WindowStarts(n) == {st \in 0..n : st % 8 = 0 /\ st < n - 8}

\* A scan without the length test that runs to the last byte.
Scanned_Unchecked(b) == {st \in 0..ByteLen(b) : st % 8 = 0 /\ st < ByteLen(b)}

\* The window starts get_token_price reads 8 bytes at: none when the data is
\* shorter than 16 bytes.
Scanned(b) == IF ByteLen(b) < MIN_DATA_LEN THEN {} ELSE WindowStarts(ByteLen(b))

\* struct.unpack('<Q', data[st:st+8]) raises for a slice of fewer than 8 bytes.
Unpacks(b, st) == st + 8 <= 8 * Len(b.words)

WordAt(b, st) == b.words[(st \div 8) + 1]

\* sol_ok = 0.01 < sol_raw / 10 ** sol_dec < 200
SolOk(w, dec) ==
    LET x == w.e - dec
    IN  /\ w.m > 0
        /\ x >= 0 - 1 \/ (x >= 0 - 4 /\ w.m > Pow10((0 - x) - 2))
        /\ x < 0 \/ (x <= 2 /\ w.m * Pow10(x) < 200)

\* token_ok = token_raw / 10 ** token_dec > 0
TokenOk(w) == w.m > 0

\* The (sol window, token window, decimal pair) triples of the scan that pass
\* the sanity checks.
Plausible(b) ==
    {a \in Scanned(b) \X Scanned(b) \X (1..Len(decimal_candidates)) :
        /\ a[1] # a[2]
        /\ Unpacks(b, a[1]) /\ Unpacks(b, a[2])
        /\ SolOk(WordAt(b, a[1]), decimal_candidates[a[3]][1])
        /\ TokenOk(WordAt(b, a[2]))}

\* The order of the three nested loops.
ScannedBefore(a, c) ==
    \/ a[1] < c[1]
    \/ a[1] = c[1] /\ a[2] < c[2]
    \/ a[1] = c[1] /\ a[2] = c[2] /\ a[3] <= c[3]

\* price_in_sol = virtual_sol_reserves / virtual_token_reserves, as the ratio
\* n / d * 10^x.
Ratio(sol, sol_dec, token, token_dec) ==
    [n |-> sol.m, d |-> token.m, x |-> (sol.e - sol_dec) - (token.e - token_dec)]

\* get_token_price on fetched data: (0, 0) for data shorter than 16 bytes or
\* with no plausible triple, else the ratio of the first plausible triple.
Decode(b) ==
    IF Plausible(b) = {} THEN [st |-> "fail"]
    ELSE LET a == CHOOSE a \in Plausible(b) : \A c \in Plausible(b) : ScannedBefore(a, c)
         IN  [st |-> "price",
              price |-> Ratio(WordAt(b, a[1]), decimal_candidates[a[3]][1],
                              WordAt(b, a[2]), decimal_candidates[a[3]][2]),
              sol_start |-> a[1], token_start |-> a[2]]

DecodeInit ==
    /\ account_data \in Blobs
    /\ decoded = NoResult
    /\ market_cap = NoMarketCap
    /\ phase = "run"
    /\ wallet = TRUE
    /\ file = NoPos
    /\ position = NoPos
    /\ active = FALSE
    /\ monitoring_thread = 0
    /\ mon = [t \in Monitors |-> NoMon]
    /\ req = [r \in Requests |-> NoReq]
    /\ response = "none"
    /\ txs = 0

\* get_token_price, from the fetched data to its return.
GetTokenPrice ==
    /\ decoded = NoResult
    /\ decoded' = Decode(account_data)
    /\ UNCHANGED <<phase, wallet, file, position, active, monitoring_thread, mon, req, response, txs, account_data, market_cap>>

DecodeNext == GetTokenPrice

DecodeSpec == DecodeInit /\ [][DecodeNext]_vars

\* ------------------------------------------------------------ format_number
\* The market cap get_status formats (line 470), on whole dollars.
Millions == {0, 1, 2, 999, 1000, 3100}
Units == {0, 1, 994, 999, 1000, 1500, 12344, 500000, 999994, 999999}

\* num >= 1_000_000_000, num >= 1_000_000 and num >= 1_000 (lines 262-266).
AtLeastBillion_Strict(n) == n.hi > 1000 \/ (n.hi = 1000 /\ n.lo > 0)
AtLeastBillion(n) == n.hi >= 1000
AtLeastMillion(n) == n.hi >= 1
AtLeastThousand(n) == n.hi >= 1 \/ n.lo >= 1000

\* "{x:.2f}" of x = a / b: the hundredths nearest to a / b (no input of the
\* model is halfway between two of them).
Hundredths(a, b) == a \div b + (IF 2 * (a % b) >= b THEN 1 ELSE 0)
Text(h, suffix) == [st |-> "text", whole |-> h \div 100, cents |-> h % 100, suffix |-> suffix]

\* format_number (lines 261-268). num / 10^9 in hundredths is num / 10^7,
\* num / 10^6 is num / 10^4 and num / 10^3 is num / 10.
format_number(n) ==
    IF AtLeastBillion(n)
    THEN Text((n.hi \div 10) + Hundredths((n.hi % 10) * 1000000 + n.lo, 10000000) , "B")
    ELSE IF AtLeastMillion(n)
    THEN Text(n.hi * 100 + Hundredths(n.lo, 10000), "M")
    ELSE IF AtLeastThousand(n)
    THEN Text(Hundredths(n.lo, 10), "K")
    ELSE Text(n.lo * 100, "")

FormatInit ==
    /\ market_cap \in [num : {Amount(hi, lo) : hi \in Millions, lo \in Units}, text : {NoText}]
    /\ account_data = NoData
    /\ decoded = NoResult
    /\ phase = "run"
    /\ wallet = TRUE
    /\ file = NoPos
    /\ position = NoPos
    /\ active = FALSE
    /\ monitoring_thread = 0
    /\ mon = [t \in Monitors |-> NoMon]
    /\ req = [r \in Requests |-> NoReq]
    /\ response = "none"
    /\ txs = 0

\* format_number, from its argument to its return.
FormatNumber ==
    /\ market_cap.text = NoText
    /\ market_cap' = [market_cap EXCEPT !.text = format_number(market_cap.num)]
    /\ UNCHANGED <<phase, wallet, file, position, active, monitoring_thread, mon, req, response, txs, account_data, decoded>>

FormatNext == FormatNumber

FormatSpec == FormatInit /\ [][FormatNext]_vars

\* ================================================================== claims
StartInputs == (Mints \cup {BadMint}) \X BOOLEAN \X BuyOutcomes

\* A step of the running process (neither its construction nor its death).
RunStep == phase = "run" /\ phase' = "run"

\* The threads start_monitoring has started in this process life.
Started == {t \in Monitors : mon[t].pc # "unborn"}

\* C1 (as amended): a start_bot call made while active is true returns a failure
\* at once ('Bot already running' when a wallet is configured, 'Private key not
\* configured' when none is), sends no buy transaction and leaves the position,
\* the position file and the active flag as they were.
C1_StartWhileActiveRejected ==
    [][\A r \in Requests : (active /\ Serving(r) /\ mon' = mon) => \A i \in StartInputs :
         StartBot_Check(r, i[1], i[2], i[3]) =>
            /\ response' = (IF wallet THEN "already_running" ELSE "no_wallet")
            /\ req'[r].pc = "idle"
            /\ UNCHANGED <<position, file, active, txs>>]_vars

\* C1 as written: the failure is always 'Bot already running'.
C1_AlwaysAlreadyRunning ==
    [][\A r \in Requests, i \in StartInputs :
         (active /\ StartBot_Check(r, i[1], i[2], i[3])) =>
            /\ response' = "already_running"
            /\ req'[r].pc = "idle"
            /\ UNCHANGED <<position, file, active, txs>>]_vars

\* A start_bot call was just rejected as already running, with the bot active
\* and a buy of this process life behind it.
C1_Witness == active /\ response = "already_running" /\ txs > 0

\* C2: whenever a Position exists, start_bot is rejected and the Position is
\* not overwritten: a start_bot call made while a Position exists returns
\* without sending a buy, and a position is installed only in a state with no
\* Position.
C2_StartRejectedWhilePositionExists ==
    [][\A r \in Requests :
         /\ \A i \in StartInputs :
              (position.kind = "rec" /\ StartBot_Check(r, i[1], i[2], i[3]))
                 => (req'[r].pc = "idle" /\ txs' = txs)
         /\ \A p \in Prices, ok \in BOOLEAN :
              StartBot_Install(r, p, ok) => position.kind # "rec"]_vars

\* C3: at most one monitoring_loop thread is alive.
C3_AtMostOneMonitor == Cardinality(AliveMonitors) <= 1

\* C4: the tick that sees a holding of 0 sets manual_sell_detected, persists
\* the position and clears active, and the thread that ran it never begins
\* another tick.
C4_ManualSellEndsMonitor ==
    [][\A t \in Monitors :
         /\ \A ok \in BOOLEAN :
              Mon_ManualSell(t, ok) =>
                 /\ position'.manual_sell_detected
                 /\ ok => file' = position'
                 /\ ~active'
         /\ mon[t].detected => mon'[t].pc # "tick"]_vars

\* C5: an exception raised in a tick is caught in the loop: the thread is back
\* at the loop's test, and the exception clears no active flag.  A monitor
\* thread leaves the loop only when it reads active as false or in the
\* manual-sell branch, and only stop_bot and the manual-sell branch clear
\* active.
C5_TickExceptionsCaught ==
    [][RunStep =>
         /\ \A t \in Monitors :
              /\ mon[t].pc = "update" => \A p \in Prices, ok \in BOOLEAN :
                   Mon_Update(t, p, TRUE, ok) => (mon'[t].pc = "while" /\ active' = active)
              /\ mon[t].pc = "manual_sell" => \A ok \in BOOLEAN :
                   (monitoring_thread = t /\ Mon_ManualSell(t, ok)) => mon'[t].pc = "while"
              /\ (mon[t].pc # "exiting" /\ mon'[t].pc = "exiting") =>
                   \/ mon[t].pc = "while" /\ ~active
                   \/ mon[t].pc = "manual_sell"
         /\ (active /\ ~active') =>
              \/ \E r \in Requests : StopBot(r)
              \/ \E t \in Monitors, ok \in BOOLEAN : Mon_ManualSell(t, ok)]_vars

\* The RuntimeError of the manual-sell branch's join was caught: the thread
\* that raised it is alive, at the loop's test.
C5_Witness == \E t \in Monitors : mon[t].detected /\ mon[t].pc = "while"

\* C6: the constructor, given a position file that holds a Position, ends with
\* that Position loaded, active true and exactly one monitor thread started;
\* given no file, with no position, active false and no monitor thread.
C6_ConstructorResumes ==
    [][(phase = "boot" /\ phase' = "run") =>
         /\ file.kind = "rec" =>
              /\ position' = file
              /\ active'
              /\ Cardinality(Started') = 1
              /\ Cardinality(AliveMonitors') = 1
              /\ monitoring_thread' \in AliveMonitors'
         /\ file.kind = "none" =>
              /\ position' = NoPos
              /\ ~active'
              /\ Started' = {}
              /\ monitoring_thread' = 0]_vars

\* The process has resumed the Position of its file: no request has returned
\* and no buy was sent in this life, and the monitor is in a tick.
C6_Witness ==
    /\ phase = "run" /\ response = "none" /\ txs = 0
    /\ active /\ position.kind = "rec" /\ position = file
    /\ \E t \in Monitors : mon[t].pc = "tick"

\* C7: while the process runs, a Position in memory stays a Position and a
\* Position in the file stays a Position, whatever stop_bot, get_status, the
\* monitor and the manual-sell branch do; stop_bot clears active and leaves the
\* Position and the file as they were.
C7_PositionRetained ==
    [][RunStep =>
         /\ position.kind = "rec" => position'.kind = "rec"
         /\ file.kind = "rec" => file'.kind = "rec"
         /\ \A r \in Requests :
              StopBot(r) => (~active' /\ position' = position /\ file' = file)]_vars

\* stop_bot has returned: the bot is stopped and the Position flagged as sold
\* by hand is still there, in memory and in the file.
C7_Witness ==
    /\ response = "stop_ok" /\ ~active
    /\ position.kind = "rec" /\ position.manual_sell_detected
    /\ file.kind = "rec"

\* C8: a start_bot whose save_position failed after the buy does not return
\* success.
C8_SaveFailureSurfaced ==
    [][\A r \in Requests :
         /\ \A p \in Prices : StartBot_Install(r, p, FALSE) => response' # "success"
         /\ \A t \in Monitors :
              (req[r].save_failed /\ StartBot_Spawn(r, t)) => response' # "success"]_vars

\* C9: a crash leaves the position file as it was or holding a complete record.
C9_CrashLeavesCompleteRecord ==
    [][(phase = "run" /\ phase' = "boot") => (file' = file \/ file'.kind = "rec")]_vars

\* C10: a position file that cannot be loaded leaves the constructor with no
\* position, active false and no monitor thread.
C10_CorruptFileIsNoPosition ==
    [][(phase = "boot" /\ phase' = "run" /\ file.kind \in {"partial", "junk"}) =>
         /\ position' = NoPos
         /\ ~active'
         /\ Started' = {}]_vars

\* C11: start_bot sends the buy only after the wallet check, the active check,
\* the bonding-curve derivation and the price fetch have succeeded, in that
\* order, with a price above zero; with a price of zero it returns the price
\* failure and sends no buy.
C11_BuyOnlyAfterChecks ==
    [][\A r \in Requests : (Serving(r) /\ mon' = mon /\ active' = active /\ position' = position) =>
       \A i \in StartInputs :
         StartBot_Check(r, i[1], i[2], i[3]) =>
            /\ txs' > txs => (wallet /\ ~active /\ i[1] # BadMint /\ i[2])
            /\ (wallet /\ ~active /\ i[1] # BadMint /\ ~i[2]) =>
                 (response' = "price_unavailable" /\ txs' = txs /\ req'[r].pc = "idle")
            /\ req'[r].pc = "idle" =>
                 /\ response' = "already_running" => wallet
                 /\ response' = "derive_failed" => (wallet /\ ~active)
                 /\ response' = "price_unavailable" => (wallet /\ ~active /\ i[1] # BadMint)
                 /\ response' = "buy_failed" => (wallet /\ ~active /\ i[1] # BadMint /\ i[2])]_vars

\* start_bot has returned the price failure in a process life that sent no buy.
C11_Witness == phase = "run" /\ response = "price_unavailable" /\ txs = 0 /\ wallet /\ ~active

\* The steps of a tick a monitor thread is in.
TickPcs == {"tick", "w_price", "w_pnl", "w_value", "w_pnl_usd", "w_progress", "save"}

\* C12: a tick whose price is at or beyond the take-profit target, or at or
\* below the stop-loss target, sends no transaction, leaves active as it is
\* and ends at the loop's test like the tick of any other price; no step of a
\* tick sends a transaction or changes active.
C12_NoActionAtTargets ==
    [][\A t \in Monitors :
         /\ (mon[t].pc \in TickPcs /\ mon'[t] # mon[t]) => (active' = active /\ txs' = txs)
         /\ \A ok \in BOOLEAN :
              (Tick_Save(t, ok) /\ Crossing(position, mon[t].cur)) =>
                 (mon'[t].pc = "while" /\ active' = active /\ txs' = txs)]_vars

\* A tick that took the price beyond the take-profit target is over, the bot
\* is active and the monitor is in its next tick.
C12_Witness ==
    /\ active /\ txs = 1
    /\ position.take_profit_percent > 0
    /\ position.current_price_usd >= position.tp_target_usd
    /\ position.tp_progress = 100
    /\ \E t \in Monitors : mon[t].pc = "tick" /\ mon[t].ticks > 0

\* The position a whole price update of price p and rate u leaves (lines
\* 289-306 run without interruption).
AfterTick(pos, p, u) ==
    [pos EXCEPT !.current_price = p,
                !.current_price_usd = p * u,
                !.pnl_percent = PnlPercent(p * u, pos.entry_price_usd),
                !.position_value_usd = pos.position_size * (p * u),
                !.pnl_usd = pos.position_size * (p * u) - pos.buy_amount_sol * u,
                !.tp_progress = TpProgress(PnlPercent(p * u, pos.entry_price_usd), pos.take_profit_percent)]

\* The view shows the position as start_bot built it or as one whole price
\* update left it.
Coherent(view) ==
    \/ view = ViewOf(OpenPosition("A", EntryPrice, SOL_PRICE_FALLBACK, BuyAmount,
                                  position.take_profit_percent))
    \/ \E p \in TickPrices, u \in Rates : view = ViewOf(AfterTick(position, p, u))

\* C13: the view get_status has built when it returns shows current_price,
\* pnl_percent, pnl_usd, position_value and tp_progress of one completed tick
\* (or of the position before any tick), never a mix.
C13_StatusViewNeverTorn ==
    \A r \in Requests :
        (req[r].pc = "reading" /\ req[r].k = Len(ViewFields)) => Coherent(req[r].view)

\* C14: the tp_progress a tick stores is pnl_percent / take_profit_percent *
\* 100 held between 0 and 100 when take_profit_percent is above 0, and 0
\* otherwise; the stored tp_progress is always within 0..100; and for a
\* take_profit_percent of 50 the pnl_percent values -10, 25, 60 and 200 give
\* 0, 50, 100 and 100.
C14_TpProgressClamped ==
    [][/\ \A t \in Monitors :
            Tick_WriteProgress(t) =>
               LET tp == position.take_profit_percent
                   q == (position.pnl_percent * 100) \div tp
               IN  position'.tp_progress =
                      IF tp > 0 THEN (IF q < 0 THEN 0 ELSE IF q > 100 THEN 100 ELSE q) ELSE 0
       /\ position.tp_progress \in 0..100
       /\ position'.tp_progress \in 0..100
       /\ TpProgress(0 - 10, 50) = 0
       /\ TpProgress(25, 50) = 50
       /\ TpProgress(60, 50) = 100
       /\ TpProgress(200, 50) = 100]_vars

\* A tick has stored half of the way to a take-profit of 50: a pnl_percent of
\* 25 and a tp_progress of 50.
C14_Witness ==
    /\ position.take_profit_percent = 50
    /\ position.pnl_percent = 25
    /\ position.tp_progress = 50
    /\ \E t \in Monitors : mon[t].pc = "save"

\* C15: whatever way the rate request fails in, get_sol_price gives the
\* fallback 150 and the tick goes on to its update without an exception.
C15_RateFailureGivesFallback ==
    [][\A t \in Monitors, p \in TickPrices, o \in FetchOutcomes :
         (o.kind \in FetchFailures /\ Tick_Price(t, p, o)) =>
            (mon'[t].pc = "w_price" /\ mon'[t].rate = SOL_PRICE_FALLBACK)]_vars

\* The fields of the curve account the claims speak of: byte offsets of the
\* base (token) and quote (SOL) reserves after the 8-byte discriminator, and
\* their decimals.
CurveLayout == [base |-> 8, quote |-> 16, base_dec |-> 6, quote_dec |-> 9]

\* The data is long enough to hold both fields.
HasFields(b) == 8 * Len(b.words) >= CurveLayout.quote + 8

BaseField(b) == WordAt(b, CurveLayout.base)

QuoteField(b) == WordAt(b, CurveLayout.quote)

\* Two ratios n / d * 10^x are the same number (mantissas are below 100).
SamePrice(p, q) ==
    LET k == p.x - q.x
    IN  IF k >= 0
        THEN k <= 4 /\ p.n * q.d * Pow10(k) = q.n * p.d
        ELSE k >= 0 - 4 /\ p.n * q.d = q.n * p.d * Pow10(0 - k)

\* C16: for account data holding a base reserve above 0 and a quote reserve
\* at the layout's offsets, get_token_price returns the price
\* (quote / 10^9) / (base / 10^6) of those two fields, whatever the other bytes
\* hold.  (The quote reserve is taken within the range the scan accepts.)
C16_DecodesLayoutFields ==
    (/\ decoded.st # "none"
     /\ HasFields(account_data)
     /\ BaseField(account_data).m > 0
     /\ SolOk(QuoteField(account_data), CurveLayout.quote_dec))
    => (/\ decoded.st = "price"
        /\ SamePrice(decoded.price,
                     Ratio(QuoteField(account_data), CurveLayout.quote_dec,
                           BaseField(account_data), CurveLayout.base_dec)))

\* C17: account data whose base reserve field is 0 decodes to the failure
\* result, never to a price.
C17_ZeroBaseIsUndecodable ==
    (/\ decoded.st # "none"
     /\ HasFields(account_data)
     /\ BaseField(account_data).m = 0)
    => decoded.st = "fail"

\* C18: for data shorter than 16 bytes get_token_price returns the failure
\* result (0, 0), and it reads no window that ends past the end of the data.
C18_ShortDataFails ==
    ByteLen(account_data) < MIN_DATA_LEN =>
        /\ decoded.st # "none" => decoded.st = "fail"
        /\ \A st \in Scanned(account_data) : st + 8 <= ByteLen(account_data)

\* get_token_price has returned the failure result for data of 15 bytes.
C18_Witness == ByteLen(account_data) = 15 /\ decoded.st = "fail"

\* C19: get_status returns 'ready' (with active false) exactly when
\* self.position holds nothing, 'active sniping' exactly when it holds a
\* position and active is true, 'stopped' exactly when it holds a position and
\* active is false; with a position the returned active field is the active
\* flag, and with none the flag is false as well.
C19_StatusMatchesState ==
    [][\A r \in Requests :
         GetStatus(r) =>
            /\ (response' = "ready") = ~Truthy(position)
            /\ (response' = "active sniping") = (Truthy(position) /\ active)
            /\ (response' = "stopped") = (Truthy(position) /\ ~active)
            /\ ~Truthy(position) => (~ActiveField(position, active) /\ ~active)
            /\ Truthy(position) => (ActiveField(position, active) = active)]_vars

\* get_status has reported a stopped bot that holds a position.
C19_Witness == response = "stopped" /\ ~active /\ position.kind = "rec"

\* C20: the health route succeeds in every state and returns the value of the
\* active flag.
C20_HealthAlwaysSucceeds ==
    [][\A r \in Requests :
         Health(r) =>
            /\ response' \in {"healthy_active", "healthy_inactive"}
            /\ (response' = "healthy_active") = active]_vars

\* C21: format_number chooses the suffix by threshold (B from 10^9, M from 10^6
\* up to 10^9, K from 10^3 up to 10^6, none below 10^3), and 999, 1500,
\* 2500000 and 3100000000 come out as $999.00, $1.50K, $2.50M and $3.10B.
C21_SuffixByThreshold ==
    market_cap.text # NoText =>
        LET n == market_cap.num
            t == market_cap.text
        IN  /\ t.suffix = "B" <=> n.hi >= 1000
            /\ t.suffix = "M" <=> (n.hi >= 1 /\ n.hi < 1000)
            /\ t.suffix = "K" <=> (n.hi = 0 /\ n.lo >= 1000)
            /\ t.suffix = "" <=> (n.hi = 0 /\ n.lo < 1000)
            /\ n = Amount(0, 999) => t = Text(99900, "")
            /\ n = Amount(0, 1500) => t = Text(150, "K")
            /\ n = Amount(2, 500000) => t = Text(250, "M")
            /\ n = Amount(3100, 0) => t = Text(310, "B")

C21_Witness ==
    /\ market_cap.num = Amount(1000, 0)
    /\ market_cap.text # NoText
    /\ market_cap.text.suffix = "B"
    /\ market_cap.text.whole = 1

\* C22: a tick takes the manual-sell branch (which sets manual_sell_detected
\* and stops the monitor) only when the balance query succeeded and read a
\* holding of zero; a failed query is never taken for a manual sell.
C22_FailedQueryIsNoManualSell ==
    [][\A t \in Monitors :
         (mon[t].pc = "tick" /\ mon'[t].pc = "manual_sell") =>
             \A holding \in 0..1, rpc_ok \in BOOLEAN, priced \in BOOLEAN :
                 Mon_Tick(t, holding, rpc_ok, priced) => (wallet /\ rpc_ok /\ holding = 0)]_vars

\* A step that puts a new Position in memory: not the monitor's writes of
\* current_price or manual_sell_detected to the one that is there.
Created ==
    /\ position' # position
    /\ position' # [position EXCEPT !.manual_sell_detected = TRUE]
    /\ \A p \in Prices : position' # [position EXCEPT !.current_price = p]

C24_ConcurrentStartsBuyOnce ==
    ~Truthy(position) => Cardinality({r \in Requests : req[r].pc = "install"}) <= 1

\* C25: once a start_bot that succeeded or the constructor's resume has
\* returned with active true, and while active stays true, a monitor thread is
\* alive that will run further ticks; a stop_bot followed by a start_bot never
\* leaves active true with no running monitor.  (A start_bot that failed in
\* Thread.start() is not a successful one.)
C25_ActiveHasRunningMonitor ==
    (phase = "run" /\ active /\ ~JoinRaises(0) /\ \A r \in Requests : req[r].pc # "sm_spawn") =>
        \E t \in Monitors : mon[t].pc \in {"while", "tick", "update", "manual_sell"}

\* C26: once active is false and stays false, every monitor thread ends; no
\* tick begins while active is false, and what a thread persists while active
\* is false is the one write of the tick it was in, after which it is back at
\* the loop's test or past the loop.
C26_MonitorWindsDown ==
    /\ \A t \in Monitors :
         (phase = "run" /\ ~active /\ Alive(t)) ~> (active \/ ~Alive(t))
    /\ [][\A t \in Monitors :
            /\ (mon[t].pc = "while" /\ mon'[t].pc = "tick") => active
            /\ (RunStep /\ ~active /\ mon'[t] # mon[t] /\ (file' # file \/ position' # position)) =>
                 /\ mon[t].pc \in {"update", "manual_sell"}
                 /\ mon'[t].pc \in {"while", "exiting"}]_vars

C26_Witness ==
    /\ response = "stop_ok"
    /\ ~active
    /\ \E t \in Monitors : mon[t].pc = "dead" /\ ~mon[t].detected

\* C27: the price a tick writes into the Position was fetched for that
\* Position's own bonding curve: a tick that fetched a price for one Position
\* never writes it into another one installed by a start_bot meanwhile.
C27_PriceWrittenToOwnPosition ==
    [][\A t \in Monitors :
         (RunStep /\ mon[t].pc = "update" /\ mon'[t].pc = "while" /\ position' # position) =>
             position'.token_address = mon[t].curve]_vars

\* C28: the tick that detects a manual sell has fetched no price when it takes
\* the manual-sell branch, and writes nothing of a price update: of the
\* Position's fields only manual_sell_detected changes.
C28_ManualSellTickWritesNoPrice ==
    [][\A t \in Monitors :
         /\ mon'[t].pc = "manual_sell" => mon'[t].curve = ""
         /\ (RunStep /\ mon[t].pc = "manual_sell" /\ mon'[t] # mon[t]) =>
              /\ position'.manual_sell_detected
              /\ position' = [position EXCEPT !.manual_sell_detected = TRUE]]_vars

C28_Witness ==
    \E t \in Monitors :
        /\ mon[t].detected
        /\ position.kind = "rec"
        /\ position.manual_sell_detected
        /\ position.current_price = 1

\* C29: a tick whose fetched price is zero (no price, or data that does not
\* decode) changes no field of the Position, does not write the file, leaves
\* active as it is and goes back to the loop's test, from where the next tick
\* starts while active is true.
C29_NoPriceTickChangesNothing ==
    [][\A t \in Monitors :
         /\ (RunStep /\ mon[t].pc = "tick" /\ mon'[t].curve # "" /\ mon'[t].pc # "update") =>
              /\ Mon_Tick(t, 1, TRUE, FALSE)
              /\ mon'[t].pc = "while"
              /\ position' = position /\ file' = file /\ active' = active
         /\ (RunStep /\ mon[t].pc = "while" /\ mon[t].curve # "" /\ mon'[t] # mon[t] /\ active) =>
              mon'[t].pc = "tick"]_vars

C29_Witness ==
    \E t \in Monitors :
        /\ mon[t].pc = "while"
        /\ mon[t].curve = "A"
        /\ active
        /\ position = NewPosition("A", 1)

\* What start_bot returns when it fails.
StartFailures ==
    {"no_wallet", "already_running", "derive_failed", "price_unavailable", "buy_failed",
     "start_exception"}

\* C30: a start_bot call that returns a failure has left active, the Position
\* in memory and the file as they were and has started no monitor thread: the
\* failing returns of its checks change none of them, and a call that has gone
\* on to install a Position does not return a failure.
C30_FailedStartChangesNothing ==
    [][\A r \in Requests :
         /\ (Serving(r) /\ req'[r].pc = "idle" /\ mon' = mon) =>
              \A i \in StartInputs :
                  StartBot_Check(r, i[1], i[2], i[3]) =>
                      /\ response' \in StartFailures
                      /\ UNCHANGED <<active, position, file, monitoring_thread>>
         /\ (RunStep /\ req[r].pc \in {"install", "sm_spawn"} /\ req'[r].pc = "idle") =>
              response' \notin StartFailures]_vars

\* The starts of the 8-byte-aligned windows that lie fully inside the data.
AlignedWindows(b) == {st \in 0..ByteLen(b) : st % 8 = 0 /\ st + 8 <= ByteLen(b)}

\* C31: on data of at least 16 bytes the scan reads every aligned window that
\* lies fully inside the data, the last one included, and so tries every
\* ordered pair of distinct windows; data of exactly 16 bytes with a SOL
\* reserve in the accepted range in one window and a positive token reserve in
\* the other gives a price.
C31_ScanCoversEveryWindow ==
    (decoded.st # "none" /\ ByteLen(account_data) >= MIN_DATA_LEN) =>
        /\ Scanned(account_data) = AlignedWindows(account_data)
        /\ (/\ ByteLen(account_data) = MIN_DATA_LEN
            /\ \E s \in {0, 8}, k \in 1..Len(decimal_candidates) :
                 /\ SolOk(WordAt(account_data, s), decimal_candidates[k][1])
                 /\ TokenOk(WordAt(account_data, 8 - s)))
           => decoded.st = "price"

\* C32: in every reachable state active implies that a Position exists:
\* the constructor's load, start_bot, stop_bot, the monitor's ticks and the
\* manual-sell detection never leave active true with no Position.
C32_ActiveImpliesPosition == active => position.kind = "rec"

\* The bot is active again on a Position after a manual sell was detected
\* and a later start_bot succeeded.
C32_Witness ==
    /\ active
    /\ response = "success"
    /\ position.kind = "rec" /\ ~position.manual_sell_detected
    /\ \E t \in Monitors : mon[t].detected
====
